---- MODULE Spec2Model ----
(***************************************************************************)
(* Model of the vector-catalog sidecar's IndexService                      *)
(* (src/sidecar/index_service.py): shard discovery at construction, and    *)
(* the SearchIndex / GetIndexInfo / ReloadIndex handlers executed by the   *)
(* worker threads of the gRPC thread pool (src/sidecar/server.py).         *)
(*                                                                         *)
(* File names and shard keys are sequences of tokens, so that the string   *)
(* operations of discovery (endswith, replace) are computed, not assumed.  *)
(* Index objects live in a heap: every faiss.read_index call allocates a   *)
(* new object whose content is the artifact read and whose nprobe field is *)
(* mutable.  Every read and every write of an attribute of a ShardIndex is *)
(* one step of the thread that performs it; the code takes no lock.        *)
(***************************************************************************)
EXTENDS Integers, Sequences, FiniteSets, TLC

VARIABLES
    dirExists,   \* os.path.exists(index_dir)
    disk,        \* file name -> name of the artifact stored in it, "corrupt" or "absent"
    phase,       \* "init" | "loading" | "serving": position of the constructor
    index_files, \* _load_all_shards: the listing still to be processed
    shardKeys,   \* self.shards: its keys, in insertion order
    shards,      \* self.shards: key -> ShardIndex attributes
    heap,        \* the index objects read so far: <<[art, nprobe, path]>>
    loaded,      \* files for which ShardIndex(...) returned during discovery
    pc,          \* thread -> position in its handler
    loc,         \* thread -> the handler's locals
    resp,        \* thread -> what the last completed call gave its caller
    calls,       \* number of requests accepted so far
    emb,         \* EmbeddingServiceImpl: the call being handled and its response
    client,      \* scripts/prepare_demo_data.py generate_embeddings: its locals
    build        \* scripts/build_faiss_index.py: one run of the index builder

vars == <<dirExists, disk, phase, index_files, shardKeys, shards, heap, loaded,
          pc, loc, resp, calls, emb, client, build>>

----------------------------------------------------------------------------
(* Bounds of the model *)

MaxCalls == 2
MaxFollowUps == 1
MaxRows == 3
BATCH_SIZE == 2
MaxVectors == 4
TrainingCap == 2

Threads == {1, 2}

----------------------------------------------------------------------------
(* Artifacts: the contents an .index file can have.  ids are the sequential *)
(* ids faiss assigns on add; vectors are integer tuples.                    *)

Entry(i, v) == [id |-> i, vec |-> v]

\* the sum of the squares of the components of a row
RECURSIVE NormSq(_)
NormSq(v) == IF v = <<>> THEN 0 ELSE Head(v) * Head(v) + NormSq(Tail(v))

\* the integer square root
ISqrt(n) == CHOOSE r \in 0..n : r * r <= n /\ (r + 1) * (r + 1) > n

\* faiss.normalize_L2 on one row: every component is divided by the row's L2
\* norm, a row of zeros is left as it is.  The rows of the model have at most
\* one non-zero component, so the norm and the quotients are whole numbers.
NormalizeL2(v) ==
    LET norm == ISqrt(NormSq(v))
    IN IF norm = 0 THEN v ELSE [i \in 1..Len(v) |-> v[i] \div norm]

\* the embeddings array prepare_demo_data.build_faiss_index receives
DemoEmbeddings == << <<0, 0>>, <<0, 1>>, <<0, 2>>, <<0, 4>> >>

\* the rows after line 159, the ones trained on, added and written
DemoVector(i) == NormalizeL2(DemoEmbeddings[i + 1])

\* flat3: the flat index of the tests; ivf4: the file build_faiss_index of
\* prepare_demo_data.py writes (normalised rows, nprobe 4 stored in the file);
\* ivf2: a file written by scripts/build_faiss_index.py from 1-d rows
Artifacts ==
    [ flat3 |-> [ ivf |-> FALSE, d |-> 2, nprobe |-> 1,
                  centroids |-> << <<0, 0>> >>,
                  lists |-> << << Entry(0, <<0, 0>>), Entry(1, <<1, 0>>),
                                  Entry(2, <<3, 3>>) >> >> ],
      ivf4  |-> [ ivf |-> TRUE, d |-> 2, nprobe |-> 4,
                  centroids |-> << <<0, 0>>, <<0, 1>> >>,
                  lists |-> << << Entry(0, DemoVector(0)) >>,
                               << Entry(1, DemoVector(1)), Entry(2, DemoVector(2)),
                                  Entry(3, DemoVector(3)) >> >> ],
      ivf2  |-> [ ivf |-> TRUE, d |-> 1, nprobe |-> 1,
                  centroids |-> << <<0>>, <<3>> >>,
                  lists |-> << << Entry(0, <<0>>) >>, << Entry(1, <<3>>) >> >> ] ]

ArtifactNames == DOMAIN Artifacts

RECURSIVE SumLen(_)
SumLen(ls) == IF ls = <<>> THEN 0 ELSE Len(Head(ls)) + SumLen(Tail(ls))

\* index.d, index.ntotal, index.nlist of an index read from artifact a
IndexD(a) == Artifacts[a].d
IndexNtotal(a) == SumLen(Artifacts[a].lists)
IndexNlist(a) == Len(Artifacts[a].centroids)

\* hasattr(index, 'nprobe'): IVF indexes have the field, flat ones do not
HasNprobe(a) == Artifacts[a].ivf

----------------------------------------------------------------------------
(* The index search of the wrapped library, as called at ShardIndex.search *)

\* id and distance of the placeholder entries that pad a short result
NoId == -1
NoDist == 9999

RECURSIVE Dist2(_, _)
Dist2(q, v) ==
    IF q = <<>> THEN 0
    ELSE (Head(q) - Head(v)) * (Head(q) - Head(v)) + Dist2(Tail(q), Tail(v))

\* x comes before y in a result: nearer first, the smaller id on a tie
Before(x, y) == x.dist < y.dist \/ (x.dist = y.dist /\ x.id < y.id)

\* the items of the set T in ascending order, padded or cut to length k
Ranked(T, k) ==
    [i \in 1..k |->
        IF i <= Cardinality(T)
        THEN CHOOSE x \in T : Cardinality({y \in T : Before(y, x)}) = i - 1
        ELSE [id |-> NoId, dist |-> NoDist]]

\* the k nearest items of S in ascending order, padded to length k (S is
\* evaluated once and ranked)
TopK(S, k) == CHOOSE r \in {Ranked(T, k) : T \in {S}} : TRUE

\* the cells probed: the min(nprobe, nlist) cells nearest to q
ProbedCells(a, q, nprobe) ==
    LET cs == Artifacts[a].centroids
        cand == {[id |-> c, dist |-> Dist2(q, cs[c])] : c \in 1..Len(cs)}
        n == IF nprobe < Len(cs) THEN nprobe ELSE Len(cs)
        best == TopK(cand, n)
    IN {best[i].id : i \in 1..n}

\* the candidates scanned: every vector of a flat index, the vectors of the
\* probed cells of an IVF index
Scanned(a, q, nprobe) ==
    LET ls == Artifacts[a].lists
        cells == IF Artifacts[a].ivf THEN ProbedCells(a, q, nprobe) ELSE {1}
    IN UNION {{[id |-> ls[c][j].id, dist |-> Dist2(q, ls[c][j].vec)] :
                    j \in 1..Len(ls[c])} : c \in cells}

\* index.search(query, top_k) on an object read from artifact a whose nprobe
\* field holds nprobe: always top_k (distance, id) pairs
IndexSearch(a, q, top_k, nprobe) == TopK(Scanned(a, q, nprobe), top_k)

----------------------------------------------------------------------------
(* File names *)

EXT == ".index"

\* filename.endswith('.index')
EndsWithIndex(f) == Len(f) > 0 /\ f[Len(f)] = EXT

\* filename.replace('.index', ''): every occurrence is removed
RECURSIVE ReplaceIndex(_)
ReplaceIndex(f) ==
    IF f = <<>> THEN <<>>
    ELSE IF Head(f) = EXT THEN ReplaceIndex(Tail(f))
    ELSE <<Head(f)>> \o ReplaceIndex(Tail(f))

\* the file names the directory may hold
FileA == <<"a", ".index">>
FileAA == <<"a", ".index", ".index">>
FileNyc == <<"nyc_taxi_2023", ".index">>
FileBak == <<"b", ".index", ".bak">>
Files == {FileA, FileAA, FileNyc, FileBak}

\* request.shard_key or "nyc_taxi_2023"
DefaultShard == <<"nyc_taxi_2023">>
DefaultTopK == 10
DefaultNprobe == 10

----------------------------------------------------------------------------
(* State after the process starts, before IndexServiceImpl.__init__ runs *)

Contents == ArtifactNames \cup {"corrupt", "absent"}

\* every listing of the directory over the file names of the model
AllDisks ==
    {dk \in [Files -> {"absent", "corrupt", "flat3", "ivf4"}] :
        dk[FileBak] \in {"absent", "corrupt"}}

\* a directory without any file
EmptyDir == [f \in Files |-> "absent"]

\* the listings the serving runs start from
InitialDisks ==
    {dk \in AllDisks :
        /\ dk[FileA] \in {"corrupt", "flat3"}
        /\ dk[FileAA] = "absent"
        /\ dk[FileNyc] \in {"absent", "ivf4"}
        /\ dk[FileBak] = "absent"} \cup {EmptyDir}

NoReq == [shard_key |-> <<>>, query_vector |-> <<>>, top_k |-> 0, nprobe |-> 0]

NoLoc ==
    [ kind |-> "none", req |-> NoReq, shard_key |-> <<>>,
      dimension |-> 0,        \* shard.dimension as read by the length check
      top_k |-> 0, nprobe |-> 0,
      idxHas |-> 0,           \* self.index as read by hasattr
      idxSet |-> 0,           \* self.index whose nprobe was assigned
      idxSearched |-> 0,      \* self.index on which search was invoked
      probed |-> 0,           \* the nprobe that index held when it was searched
      old_index |-> 0,        \* reload: self.index when read_index was called
      new_index |-> 0,        \* reload: the object read_index returned
      tmp |-> 0,              \* reload: value loaded for the pending store
      didRead |-> FALSE,      \* the call invoked faiss.read_index
      wrote |-> FALSE,        \* the call assigned an attribute of a ShardIndex
      pos |-> 0,              \* GetIndexInfo: shards visited so far
      total_vectors |-> 0,    \* GetIndexInfo: shard.total_vectors just read
      shard_infos |-> <<>>,
      quiet |-> FALSE ]       \* GetIndexInfo: began after every other call returned

NoDetails == [msg |-> "none"]

NoResp ==
    [ code |-> "OK", details |-> NoDetails, results |-> <<>>, shard_key |-> <<>>,
      success |-> FALSE, message |-> NoDetails, reloaded_shards |-> <<>>,
      shards |-> <<>> ]

\* the embedding service before any call
NoEmbResp == [code |-> "OK", details |-> "none", vector |-> <<>>, dimension |-> 0,
              model_name |-> "none", embeddings |-> <<>>]

EmbIdle ==
    [ pc |-> "idle",
      kind |-> "none",        \* "single" | "batch"
      text |-> <<>>,          \* request.text
      texts |-> <<>>,         \* request.texts
      kept |-> <<>>,          \* the local text / texts after strip
      invoked |-> FALSE,      \* the call has invoked self.model.encode
      encoded |-> <<>>,       \* what it passed to self.model.encode
      resp |-> NoEmbResp ]

\* generate_embeddings before it is called
ClientIdle == [pc |-> "idle", texts |-> <<>>, start |-> 0, all_embeddings |-> <<>>]

\* no index object / no artifact
NoIndex == [made |-> FALSE]

\* the index builder before it is run
BuildIdle ==
    [ pc |-> "idle",
      args |-> [nlist |-> 0, m |-> 0, nbits |-> 0],   \* --nlist, --m, --nbits
      output |-> <<>>,        \* --output, as path components
      faults |-> {},          \* the steps the environment makes fail in this run
      lenient |-> FALSE,      \* the library at hand accepts codes wider than a byte
      n |-> 0, d |-> 0,       \* rows and row length of the Delta table
      n_vectors |-> 0, dimension |-> 0,     \* embeddings.shape
      training_vectors |-> <<>>,            \* rows (by number) given to train
      index |-> NoIndex,      \* the index object of the run
      artifact |-> NoIndex,   \* what the run wrote to --output
      events |-> <<>>,        \* the library calls that returned, in order
      exit |-> -1 ]           \* exit status; -1 while the run has not ended

\* the state before construction, on one of the listings of Disks
InitOn(Disks) ==
    /\ dirExists \in BOOLEAN
    /\ disk \in IF dirExists THEN Disks ELSE {EmptyDir}
    /\ phase = "init"
    /\ index_files = <<>>
    /\ shardKeys = <<>>
    /\ shards = <<>>
    /\ heap = <<>>
    /\ loaded = {}
    /\ pc = [t \in Threads |-> "idle"]
    /\ loc = [t \in Threads |-> NoLoc]
    /\ resp = [t \in Threads |-> NoResp]
    /\ calls = 0
    /\ emb = EmbIdle
    /\ client = ClientIdle
    /\ build = BuildIdle

Init == InitOn(InitialDisks)

\* discovery alone, over every listing
InitDiscovery == InitOn(AllDisks)

----------------------------------------------------------------------------
(* Helpers on the registry and the heap *)

Range(s) == {s[i] : i \in 1..Len(s)}

Min(a, b) == IF a < b THEN a ELSE b

\* one-to-one sequences over the finite set S: the orders os.listdir may give
Orders(S) ==
    {s \in [1..Cardinality(S) -> S] : \A i, j \in 1..Cardinality(S) :
        s[i] = s[j] => i = j}

\* faiss.read_index(path) succeeds iff the file holds an artifact
Readable(path) == disk[path] \in ArtifactNames

\* the object faiss.read_index(path) returns
NewObject(path) ==
    [art |-> disk[path], nprobe |-> Artifacts[disk[path]].nprobe, path |-> path]

\* self.shards[key] = value
PutShard(key, value) ==
    /\ shards' = [k \in (DOMAIN shards) \cup {key} |->
                    IF k = key THEN value ELSE shards[k]]
    /\ shardKeys' = IF key \in DOMAIN shards THEN shardKeys
                    ELSE Append(shardKeys, key)

----------------------------------------------------------------------------
(* IndexServiceImpl.__init__ / _load_all_shards *)

thrVars == <<pc, loc, resp, calls>>

\* the embedding service and its client, which the index service never touches
embVars == <<emb, client>>

\* lines 117-126: the directory check and the listing
ListDir ==
    /\ phase = "init"
    /\ LET listing == {f \in Files : disk[f] # "absent" /\ EndsWithIndex(f)}
       IN IF ~dirExists
          THEN /\ dirExists' = TRUE
               /\ phase' = "serving"
               /\ index_files' = <<>>
          ELSE IF listing = {}
          THEN /\ phase' = "serving"
               /\ UNCHANGED <<dirExists, index_files>>
          ELSE /\ \E order \in Orders(listing) : index_files' = order
               /\ phase' = "loading"
               /\ UNCHANGED dirExists
    /\ UNCHANGED <<disk, shardKeys, shards, heap, loaded, thrVars, embVars, build>>

\* ShardIndex.__init__ succeeds: the file exists and read_index returns
ShardInitOk(index_path) == disk[index_path] # "absent" /\ Readable(index_path)

\* lines 128-136: one iteration of the loop over the listing
LoadShard ==
    /\ phase = "loading"
    /\ index_files # <<>>
    /\ LET filename == Head(index_files)
           shard_key == ReplaceIndex(filename)
       IN IF ShardInitOk(filename)
          THEN /\ heap' = Append(heap, NewObject(filename))
               /\ PutShard(shard_key,
                     [ shard_key |-> shard_key, index_path |-> filename,
                       index |-> Len(heap) + 1,
                       dimension |-> IndexD(disk[filename]),
                       total_vectors |-> IndexNtotal(disk[filename]) ])
               /\ loaded' = loaded \cup {filename}
          ELSE UNCHANGED <<heap, shards, shardKeys, loaded>>
    /\ index_files' = Tail(index_files)
    /\ phase' = IF Tail(index_files) = <<>> THEN "serving" ELSE "loading"
    /\ UNCHANGED <<dirExists, disk, thrVars, embVars, build>>

----------------------------------------------------------------------------
(* Requests the callers send *)

SearchRequest(k, q, n, p) ==
    [shard_key |-> k, query_vector |-> q, top_k |-> n, nprobe |-> p]

SearchRequests ==
    { SearchRequest(<<>>, <<0, 0>>, 0, 0),
      SearchRequest(<<>>, <<0, 0>>, 2, 0),
      SearchRequest(<<>>, <<0, 0>>, 2, 1),
      SearchRequest(<<"a">>, <<0, 0>>, 0, 0),
      SearchRequest(<<"a">>, <<0, 0>>, 2, 1),
      SearchRequest(<<"a">>, <<0, 0>>, -1, -1),
      SearchRequest(<<"a">>, <<0>>, 2, 1),
      SearchRequest(<<"zz">>, <<0, 0>>, 0, 0) }

ReloadRequests == {<<>>, <<"a">>, <<"nyc_taxi_2023">>, <<"zz">>}

InfoRequests == {<<>>, <<"a">>}

\* a worker thread of the pool is free to take a request
Free(t) == phase = "serving" /\ pc[t] \in {"idle", "done"} /\ calls < MaxCalls

\* the MaxCalls overlapping calls have all returned; a client that waited for
\* them goes on with calls made one at a time
AllReturned ==
    phase = "serving" /\ calls >= MaxCalls /\ \A t \in Threads : pc[t] \in {"idle", "done"}

\* the call of such a client goes to worker t; with every worker idle it makes
\* no difference which one takes it, the first does
Sequential(t) == AllReturned /\ \A u \in Threads : t <= u

\* such a client can send one more ReloadIndex
FollowUp(t) == Sequential(t) /\ calls < MaxCalls + MaxFollowUps

\* the handler of thread t returns r to its caller
Return(t, r, l) ==
    /\ resp' = [resp EXCEPT ![t] = r]
    /\ loc' = [loc EXCEPT ![t] = l]
    /\ pc' = [pc EXCEPT ![t] = "done"]

\* the handler of thread t goes on to position p with locals l
Goto(t, p, l) ==
    /\ loc' = [loc EXCEPT ![t] = l]
    /\ pc' = [pc EXCEPT ![t] = p]
    /\ UNCHANGED resp

\* a listing that leaves the registered keys out
AvailableShardsNone == <<>>

\* list(self.shards.keys())
AvailableShards == shardKeys

envVars == <<dirExists, disk, phase, index_files, loaded, embVars, build>>

----------------------------------------------------------------------------
(* IndexServiceImpl.SearchIndex and ShardIndex.search *)

\* the key taken from the request as it is, without the fallback
ResolveKeyNoDefault(request) == request.shard_key

\* line 150: request.shard_key or "nyc_taxi_2023"
ResolveKey(request) ==
    IF request.shard_key = <<>> THEN DefaultShard ELSE request.shard_key

\* lines 150-157: resolve the key and look the shard up
SearchResolve(t) ==
    /\ Free(t)
    /\ \E request \in SearchRequests :
        LET shard_key == ResolveKey(request)
            l == [NoLoc EXCEPT !.kind = "search", !.req = request,
                               !.shard_key = shard_key]
        IN IF shard_key \notin DOMAIN shards
           THEN Return(t, [NoResp EXCEPT !.code = "NOT_FOUND",
                              !.details = [msg |-> "Shard not found. Available shards",
                                           shard_key |-> shard_key,
                                           available |-> AvailableShards]], l)
           ELSE Goto(t, "s_dim", l)
    /\ calls' = calls + 1
    /\ UNCHANGED <<envVars, shardKeys, shards, heap>>

\* the nprobe of the request passed on as it is
EffectiveNprobeRaw(request) == request.nprobe

\* lines 167-168: a non-positive top_k / nprobe becomes 10
EffectiveTopK(request) == IF request.top_k > 0 THEN request.top_k ELSE DefaultTopK
EffectiveNprobe(request) == IF request.nprobe > 0 THEN request.nprobe ELSE DefaultNprobe

\* lines 160-168: read shard.dimension and compare it with the query length
SearchCheckDim(t) ==
    /\ pc[t] = "s_dim"
    /\ LET l == loc[t]
           dim == shards[l.shard_key].dimension
       IN IF Len(l.req.query_vector) # dim
          THEN Goto(t, "s_reject", [l EXCEPT !.dimension = dim])
          ELSE Goto(t, "s_has", [l EXCEPT !.dimension = dim,
                                          !.top_k = EffectiveTopK(l.req),
                                          !.nprobe = EffectiveNprobe(l.req)])
    /\ UNCHANGED <<envVars, shardKeys, shards, heap, calls>>

\* lines 163-165: the rejection; the message reads shard.dimension again
SearchReject(t) ==
    /\ pc[t] = "s_reject"
    /\ Return(t, [NoResp EXCEPT !.code = "INVALID_ARGUMENT",
                     !.details = [msg |-> "Query dimension does not match index dimension",
                                  query_dimension |-> Len(loc[t].req.query_vector),
                                  index_dimension |-> shards[loc[t].shard_key].dimension]],
              loc[t])
    /\ UNCHANGED <<envVars, shardKeys, shards, heap, calls>>

\* line 66: hasattr(self.index, 'nprobe')
SearchHasattr(t) ==
    /\ pc[t] = "s_has"
    /\ LET idx == shards[loc[t].shard_key].index
       IN Goto(t, IF HasNprobe(heap[idx].art) THEN "s_set" ELSE "s_search",
               [loc[t] EXCEPT !.idxHas = idx])
    /\ UNCHANGED <<envVars, shardKeys, shards, heap, calls>>

\* line 67: self.index.nprobe = nprobe
SearchSetNprobe(t) ==
    /\ pc[t] = "s_set"
    /\ LET idx == shards[loc[t].shard_key].index
       IN /\ heap' = [heap EXCEPT ![idx].nprobe = loc[t].nprobe]
          /\ Goto(t, "s_search", [loc[t] EXCEPT !.idxSet = idx])
    /\ UNCHANGED <<envVars, shardKeys, shards, calls>>

\* lines 174-189: the response built from the arrays the search returned
SearchResponse(shard_key, found) ==
    [NoResp EXCEPT !.shard_key = shard_key,
                   !.results = [i \in 1..Len(found) |->
                                   [id |-> found[i].id, score |-> found[i].dist]]]

\* str(e) of an exception raised by the index library: the wording is the
\* installed library's (an assertion without message, or an error message)
ExceptionTexts == {"", "Error in faiss search"}

\* an except clause that returns the empty response without a status
SearchFailedSilently(e) == NoResp

\* lines 191-195: the handler's except clause; e is str(e)
SearchFailed(e) ==
    [NoResp EXCEPT !.code = "INTERNAL",
                   !.details = [msg |-> "Search failed", exception |-> e]]

\* lines 70-73, 174-195: self.index.search(query_vector, top_k); the wrapped
\* library raises when the query length is not the index's d
SearchInvoke(t) ==
    /\ pc[t] = "s_search"
    /\ LET l == loc[t]
           idx == shards[l.shard_key].index
           l2 == [l EXCEPT !.idxSearched = idx]
       IN IF Len(l.req.query_vector) # IndexD(heap[idx].art)
          THEN \E e \in ExceptionTexts : Return(t, SearchFailed(e), l2)
          ELSE Return(t, SearchResponse(l.shard_key,
                            IndexSearch(heap[idx].art, l.req.query_vector,
                                        l.top_k, heap[idx].nprobe)),
                      [l2 EXCEPT !.probed = heap[idx].nprobe])
    /\ UNCHANGED <<envVars, shardKeys, shards, heap, calls>>

----------------------------------------------------------------------------
(* IndexServiceImpl.ReloadIndex and ShardIndex.reload *)

\* an assignment that reaches the attribute of every shard of the registry
SetAttrAll(key, field, value) ==
    shards' = [k \in DOMAIN shards |-> [shards[k] EXCEPT ![field] = value]]

\* an assignment that keeps only the shard assigned to
SetAttrDropOthers(key, field, value) ==
    shards' = [k \in {key} |-> [shards[k] EXCEPT ![field] = value]]

\* self.shards[key].<field> = value
SetAttr(key, field, value) ==
    shards' = [shards EXCEPT ![key] = [shards[key] EXCEPT ![field] = value]]

\* lines 241-259: the checks on the key
ReloadValidate(t) ==
    /\ Free(t) \/ FollowUp(t)
    /\ \E shard_key \in ReloadRequests :
        LET l == [NoLoc EXCEPT !.kind = "reload", !.req.shard_key = shard_key,
                               !.shard_key = shard_key]
        IN IF shard_key = <<>>
           THEN Return(t, [NoResp EXCEPT !.code = "INVALID_ARGUMENT",
                              !.details = [msg |-> "shard_key is required"],
                              !.message = [msg |-> "shard_key is required"]], l)
           ELSE IF shard_key \notin DOMAIN shards
           THEN Return(t, [NoResp EXCEPT !.code = "NOT_FOUND",
                              !.details = [msg |-> "Shard not found",
                                           shard_key |-> shard_key],
                              !.message = [msg |-> "Shard not found. Available shards",
                                           shard_key |-> shard_key,
                                           available |-> AvailableShards]], l)
           ELSE Goto(t, "r_read", l)
    /\ calls' = calls + 1
    /\ UNCHANGED <<envVars, shardKeys, shards, heap>>

\* a failure path that resets the shard's counters before reporting
ReloadFailedResets(t) ==
    /\ Return(t, [NoResp EXCEPT !.message = [msg |-> "Failed to reload shard",
                                             shard_key |-> loc[t].shard_key]],
              [loc[t] EXCEPT !.didRead = TRUE])
    /\ SetAttr(loc[t].shard_key, "total_vectors", 0)
    /\ UNCHANGED heap

\* a failure path that reports the shard as reloaded
ReloadFailedReportsSuccess(t) ==
    /\ Return(t, [NoResp EXCEPT !.success = TRUE,
                     !.message = [msg |-> "Shard reloaded successfully",
                                  shard_key |-> loc[t].shard_key],
                     !.reloaded_shards = <<loc[t].shard_key>>],
              [loc[t] EXCEPT !.didRead = TRUE])
    /\ UNCHANGED <<shards, heap>>

\* lines 90-92, 269-274: read_index raised; reload returns False
ReloadFailed(t) ==
    /\ Return(t, [NoResp EXCEPT !.message = [msg |-> "Failed to reload shard",
                                             shard_key |-> loc[t].shard_key]],
              [loc[t] EXCEPT !.didRead = TRUE])
    /\ UNCHANGED <<shards, heap>>

\* line 84: new_index = faiss.read_index(self.index_path)
ReloadRead(t) ==
    /\ pc[t] = "r_read"
    /\ LET path == shards[loc[t].shard_key].index_path
       IN IF Readable(path)
          THEN /\ heap' = Append(heap, NewObject(path))
               /\ Goto(t, "r_swap", [loc[t] EXCEPT !.didRead = TRUE,
                                  !.old_index = shards[loc[t].shard_key].index,
                                  !.new_index = Len(heap) + 1])
               /\ UNCHANGED shards
          ELSE ReloadFailed(t)
    /\ UNCHANGED <<envVars, shardKeys, calls>>

\* line 85: self.index = new_index
ReloadSwap(t) ==
    /\ pc[t] = "r_swap"
    /\ SetAttr(loc[t].shard_key, "index", loc[t].new_index)
    /\ Goto(t, "r_load_d", [loc[t] EXCEPT !.wrote = TRUE])
    /\ UNCHANGED <<envVars, shardKeys, heap, calls>>

\* line 86, right-hand side: self.index.d
ReloadLoadD(t) ==
    /\ pc[t] = "r_load_d"
    /\ Goto(t, "r_store_d",
            [loc[t] EXCEPT !.tmp = IndexD(heap[shards[loc[t].shard_key].index].art)])
    /\ UNCHANGED <<envVars, shardKeys, shards, heap, calls>>

\* line 86, assignment: self.dimension = ...
ReloadStoreD(t) ==
    /\ pc[t] = "r_store_d"
    /\ SetAttr(loc[t].shard_key, "dimension", loc[t].tmp)
    /\ Goto(t, "r_load_n", loc[t])
    /\ UNCHANGED <<envVars, shardKeys, heap, calls>>

\* line 87, right-hand side: self.index.ntotal
ReloadLoadN(t) ==
    /\ pc[t] = "r_load_n"
    /\ Goto(t, "r_store_n",
            [loc[t] EXCEPT !.tmp = IndexNtotal(heap[shards[loc[t].shard_key].index].art)])
    /\ UNCHANGED <<envVars, shardKeys, shards, heap, calls>>

\* line 87, assignment, then lines 89, 263-268: the success response
ReloadStoreN(t) ==
    /\ pc[t] = "r_store_n"
    /\ SetAttr(loc[t].shard_key, "total_vectors", loc[t].tmp)
    /\ Return(t, [NoResp EXCEPT !.success = TRUE,
                     !.message = [msg |-> "Shard reloaded successfully",
                                  shard_key |-> loc[t].shard_key],
                     !.reloaded_shards = <<loc[t].shard_key>>], loc[t])
    /\ UNCHANGED <<envVars, shardKeys, heap, calls>>

----------------------------------------------------------------------------
(* IndexServiceImpl.GetIndexInfo *)

\* a GetIndexInfo that answers an empty registry with an entry for the
\* default shard
InfoStartPlaceholder(t) ==
    /\ Free(t) \/ Sequential(t)
    /\ \E shard_key \in InfoRequests :
        LET l == [NoLoc EXCEPT !.kind = "info", !.req.shard_key = shard_key,
                               !.quiet = AllReturned]
        IN IF shardKeys = <<>>
           THEN Return(t, [NoResp EXCEPT !.shards =
                              <<[ shard_key |-> DefaultShard, total_vectors |-> 0,
                                  dimension |-> 0, index_path |-> <<>> ]>>], l)
           ELSE Goto(t, "i_total", l)
    /\ calls' = IF calls < MaxCalls THEN calls + 1 ELSE calls
    /\ UNCHANGED <<envVars, shardKeys, shards, heap>>

\* lines 208-210: the loop over self.shards.items() begins
InfoStart(t) ==
    /\ Free(t) \/ Sequential(t)
    /\ \E shard_key \in InfoRequests :
        LET l == [NoLoc EXCEPT !.kind = "info", !.req.shard_key = shard_key,
                               !.quiet = AllReturned]
        IN IF shardKeys = <<>>
           THEN Return(t, NoResp, l)
           ELSE Goto(t, "i_total", l)
    /\ calls' = IF calls < MaxCalls THEN calls + 1 ELSE calls
    /\ UNCHANGED <<envVars, shardKeys, shards, heap>>

\* line 213: total_vectors=shard.total_vectors
InfoReadTotal(t) ==
    /\ pc[t] = "i_total"
    /\ LET shard == shards[shardKeys[loc[t].pos + 1]]
       IN Goto(t, "i_dim", [loc[t] EXCEPT !.total_vectors = shard.total_vectors])
    /\ UNCHANGED <<envVars, shardKeys, shards, heap, calls>>

\* lines 214-221: dimension=shard.dimension, index_path; append; next shard
InfoReadDim(t) ==
    /\ pc[t] = "i_dim"
    /\ LET shard_key == shardKeys[loc[t].pos + 1]
           shard == shards[shard_key]
           shard_info == [ shard_key |-> shard_key,
                           total_vectors |-> loc[t].total_vectors,
                           dimension |-> shard.dimension,
                           index_path |-> shard.index_path ]
           l == [loc[t] EXCEPT !.pos = @ + 1,
                               !.shard_infos = Append(@, shard_info)]
       IN IF l.pos = Len(shardKeys)
          THEN Return(t, [NoResp EXCEPT !.shards = l.shard_infos], l)
          ELSE Goto(t, "i_total", l)
    /\ UNCHANGED <<envVars, shardKeys, shards, heap, calls>>

----------------------------------------------------------------------------
(* The environment: while the service runs, the offline builders write     *)
(* artifact files into the index directory, whether or not the file's key  *)
(* is registered: scripts/build_faiss_index.py (save_index) writes the     *)
(* file --output names with a rebuilt index, or leaves it unreadable;      *)
(* scripts/prepare_demo_data.py (build_faiss_index) writes the file of the *)
(* default shard.                                                          *)

\* the files --output names in the runs of the model
RebuiltFiles == {FileA, FileNyc}

\* save_index: faiss.write_index(index, output_path)
WriteArtifact ==
    /\ phase = "serving"
    /\ \E f \in RebuiltFiles, c \in {"ivf2", "corrupt"} :
        /\ disk[f] # c
        /\ disk' = [disk EXCEPT ![f] = c]
    /\ UNCHANGED <<dirExists, phase, index_files, loaded, shardKeys, shards, heap,
                   thrVars, embVars, build>>

\* prepare_demo_data.build_faiss_index: the rows are normalised in place, an
\* IVF index is trained on them and filled with them, nprobe = 4 is set and
\* the index is written to INDEX_FILE, data/indexes/nyc_taxi_2023.index
WriteDemoArtifact ==
    /\ phase = "serving"
    /\ disk[FileNyc] # "ivf4"
    /\ disk' = [disk EXCEPT ![FileNyc] = "ivf4"]
    /\ UNCHANGED <<dirExists, phase, index_files, loaded, shardKeys, shards, heap,
                   thrVars, embVars, build>>

Next ==
    \/ ListDir
    \/ LoadShard
    \/ \E t \in Threads :
        \/ SearchResolve(t)
        \/ SearchCheckDim(t)
        \/ SearchReject(t)
        \/ SearchHasattr(t)
        \/ SearchSetNprobe(t)
        \/ SearchInvoke(t)
        \/ ReloadValidate(t)
        \/ ReloadRead(t)
        \/ ReloadSwap(t)
        \/ ReloadLoadD(t)
        \/ ReloadStoreD(t)
        \/ ReloadLoadN(t)
        \/ ReloadStoreN(t)
        \/ InfoStart(t)
        \/ InfoReadTotal(t)
        \/ InfoReadDim(t)
    \/ WriteArtifact
    \/ WriteDemoArtifact

Spec == Init /\ [][Next]_vars

NextDiscovery == ListDir \/ LoadShard

SpecDiscovery == InitDiscovery /\ [][NextDiscovery]_vars

----------------------------------------------------------------------------
(* EmbeddingServiceImpl (src/sidecar/embedding_service.py) and the batch    *)
(* client generate_embeddings (src/scripts/prepare_demo_data.py).  A text   *)
(* is a sequence of characters, so that strip() is computed.                *)

idxVars == <<dirExists, disk, phase, index_files, shardKeys, shards, heap, loaded,
             thrVars>>

WS == " "

\* the texts callers send
Texts ==
    { <<>>, <<WS>>, <<"a">>, <<WS, "a">>, <<"a", WS>>, <<"b">>, <<"a", WS, "b">> }

\* the request.texts of a GenerateEmbeddingBatch call made directly
DirectBatches == UNION {[1..n -> Texts] : n \in 0..BATCH_SIZE}

\* a cell of the demo file that int() does not convert (a missing value)
NaN == "nan"

\* the rows of the demo file, each cell as it prints: the columns
\* _make_text reads that vary here; the others take the defaults of row.get
Rows == [PULocationID : {"1", "2"}, passenger_count : {"1", "2", NaN}]

\* the demo file: up to MaxRows rows
DemoFiles == UNION {[1..n -> Rows] : n \in 1..MaxRows}

\* int(...) raises on the row
RowRaises(row) == row.passenger_count = NaN

\* lines 108-119: _make_text(row)
MakeText(row) ==
    << "Yellow taxi trip from zone", WS, row.PULocationID, WS, "to zone", WS,
       "0", ",", WS, "0.0", WS, "miles,", WS, "$0.00", WS, "fare,", WS,
       row.passenger_count, WS,
       IF row.passenger_count = "1" THEN "passenger" ELSE "passengers" >>

\* line 129: texts = [_make_text(row) for _, row in df.iterrows()]
RowTexts(rows) == [i \in 1..Len(rows) |-> MakeText(rows[i])]

\* a strip that returns the text as it is
StripNone(t) == t

\* str.strip(): leading and trailing whitespace removed
Strip(t) ==
    LET inked == {i \in 1..Len(t) : t[i] # WS}
    IN IF inked = {} THEN <<>>
       ELSE SubSeq(t, CHOOSE i \in inked : \A j \in inked : i <= j,
                      CHOOSE i \in inked : \A j \in inked : i >= j)

\* line 92: [t.strip() for t in request.texts if t.strip()]
RECURSIVE StripKeep(_)
StripKeep(ts) ==
    IF ts = <<>> THEN <<>>
    ELSE (IF Strip(Head(ts)) # <<>> THEN <<Strip(Head(ts))>> ELSE <<>>)
         \o StripKeep(Tail(ts))

\* self.model.encode(text): the model is a fixed function from a text to a
\* vector of the model's dimension; here the counts of two classes of tokens
Encode(t) ==
    << Cardinality({i \in 1..Len(t) : t[i] \in {"a", "1"}}),
       Cardinality({i \in 1..Len(t) : t[i] \in {"b", "2"}}) >>

\* line 27: the default model_name
ModelName == "all-MiniLM-L6-v2"

\* EmbeddingResponse(vector=vector, model_name=self.model_name, dimension=len(vector))
EmbeddingResponse(vector) ==
    [vector |-> vector, model_name |-> ModelName, dimension |-> Len(vector)]

EmbRejected(details) ==
    [NoEmbResp EXCEPT !.code = "INVALID_ARGUMENT", !.details = details]

\* a caller sends GenerateEmbedding(text)
CallSingle ==
    /\ client.pc = "idle" /\ emb.pc \in {"idle", "done"}
    /\ \E text \in Texts :
          emb' = [EmbIdle EXCEPT !.pc = "s_strip", !.kind = "single", !.text = text]
    /\ UNCHANGED <<idxVars, build, client>>

\* a caller sends GenerateEmbeddingBatch(texts)
CallBatch ==
    /\ client.pc = "idle" /\ emb.pc \in {"idle", "done"}
    /\ \E texts \in DirectBatches :
          emb' = [EmbIdle EXCEPT !.pc = "b_strip", !.kind = "batch", !.texts = texts]
    /\ UNCHANGED <<idxVars, build, client>>

\* GenerateEmbedding, lines 51-55: strip and the emptiness check
EmbSingleStrip ==
    /\ emb.pc = "s_strip"
    /\ LET text == Strip(emb.text)
       IN IF text = <<>>
          THEN emb' = [emb EXCEPT !.pc = "done",
                                  !.resp = EmbRejected("Text cannot be empty")]
          ELSE emb' = [emb EXCEPT !.pc = "s_encode", !.kept = <<text>>]
    /\ UNCHANGED <<idxVars, build, client>>

\* GenerateEmbedding, lines 60-72: the model call and the response
EmbSingleEncode ==
    /\ emb.pc = "s_encode"
    /\ LET vector == Encode(emb.kept[1])
       IN emb' = [emb EXCEPT !.pc = "done", !.invoked = TRUE, !.encoded = emb.kept,
                     !.resp = [NoEmbResp EXCEPT !.vector = vector,
                                                !.model_name = ModelName,
                                                !.dimension = Len(vector)]]
    /\ UNCHANGED <<idxVars, build, client>>

\* GenerateEmbeddingBatch, lines 92-97: strip, drop the blank texts, check
EmbBatchStrip ==
    /\ emb.pc = "b_strip"
    /\ LET texts == StripKeep(emb.texts)
       IN IF texts = <<>>
          THEN emb' = [emb EXCEPT !.pc = "done",
                          !.resp = EmbRejected("At least one non-empty text is required")]
          ELSE emb' = [emb EXCEPT !.pc = "b_encode", !.kept = texts]
    /\ UNCHANGED <<idxVars, build, client>>

\* GenerateEmbeddingBatch, lines 102-118: one model call, one response each
EmbBatchEncode ==
    /\ emb.pc = "b_encode"
    /\ emb' = [emb EXCEPT !.pc = "done", !.invoked = TRUE, !.encoded = emb.kept,
                  !.resp = [NoEmbResp EXCEPT !.embeddings =
                               [i \in 1..Len(emb.kept) |->
                                   EmbeddingResponse(Encode(emb.kept[i]))]]]
    /\ UNCHANGED <<idxVars, build, client>>

\* generate_embeddings, lines 126-135: the texts of the rows; a row that
\* _make_text cannot convert ends the script before any request
ClientStart ==
    /\ client.pc = "idle" /\ emb.pc = "idle"
    /\ \E rows \in DemoFiles :
          client' = IF \E i \in 1..Len(rows) : RowRaises(rows[i])
                    THEN [ClientIdle EXCEPT !.pc = "failed"]
                    ELSE [pc |-> "loop", texts |-> RowTexts(rows), start |-> 0,
                          all_embeddings |-> <<>>]
    /\ UNCHANGED <<idxVars, build, emb>>

\* lines 137-140: the next batch is sent
ClientSend ==
    /\ client.pc = "loop" /\ client.start < Len(client.texts)
    /\ LET stop == IF client.start + BATCH_SIZE < Len(client.texts)
                   THEN client.start + BATCH_SIZE ELSE Len(client.texts)
           batch == SubSeq(client.texts, client.start + 1, stop)
       IN emb' = [EmbIdle EXCEPT !.pc = "b_strip", !.kind = "batch", !.texts = batch]
    /\ client' = [client EXCEPT !.pc = "wait"]
    /\ UNCHANGED <<idxVars, build>>

\* lines 140-143: the response's vectors are appended; a status other than OK
\* is raised by the stub as RpcError and ends the script
ClientReceive ==
    /\ client.pc = "wait" /\ emb.pc = "done"
    /\ IF emb.resp.code = "OK"
       THEN client' = [client EXCEPT !.pc = "loop",
                          !.start = @ + BATCH_SIZE,
                          !.all_embeddings = @ \o
                              [i \in 1..Len(emb.resp.embeddings) |->
                                  emb.resp.embeddings[i].vector]]
       ELSE client' = [client EXCEPT !.pc = "failed"]
    /\ UNCHANGED <<idxVars, build, emb>>

\* lines 146-149: the loop is over, the vectors are returned
ClientFinish ==
    /\ client.pc = "loop" /\ client.start >= Len(client.texts)
    /\ client' = [client EXCEPT !.pc = "done"]
    /\ UNCHANGED <<idxVars, build, emb>>

InitEmbedding == InitOn({EmptyDir}) /\ dirExists

NextEmbedding ==
    \/ CallSingle
    \/ CallBatch
    \/ EmbSingleStrip
    \/ EmbSingleEncode
    \/ EmbBatchStrip
    \/ EmbBatchEncode
    \/ ClientStart
    \/ ClientSend
    \/ ClientReceive
    \/ ClientFinish

SpecEmbedding == InitEmbedding /\ [][NextEmbedding]_vars

----------------------------------------------------------------------------
(* The offline index builder (src/scripts/build_faiss_index.py): one run of *)
(* main.  The rows of the Delta table are known by their position 1..n;    *)
(* TrainingCap stands for the 1,000,000 of the training-sample rule.       *)

\* the --nlist, --m and --nbits a run is started with
BuildArgs == [nlist : {1, 2}, m : {1, 2}, nbits : {0, 1, 9}]

\* row lengths of the table
RowLengths == {2, 3}

\* the steps the environment can make fail: reading the table, index.add,
\* writing the file (makedirs or write_index), reading the size of the file
\* written
FaultSets == {{}, {"load"}, {"add"}, {"save"}, {"stat"}}

\* the --output paths: with and without a directory part
Outputs == {<<"data", "indexes", "x.index">>, <<"x.index">>}

\* os.path.dirname(output_path)
Dirname(path) == SubSeq(path, 1, Len(path) - 1)

\* 2^nbits: the centroids of one sub-codebook
RECURSIVE Pow2(_)
Pow2(e) == IF e <= 0 THEN 1 ELSE 2 * Pow2(e - 1)

\* np.random.choice(n, size, replace=False): size distinct row numbers
Choices(n, size) ==
    {c \in [1..size -> 1..n] : \A i, j \in 1..size : c[i] = c[j] => i = j}

\* lines 212-214: the except clause of main, sys.exit(1)
BuildRaised(b) == [b EXCEPT !.pc = "exited", !.exit = 1]

\* python3 scripts/build_faiss_index.py --input ... --output ... (lines 180-191)
BuildStart ==
    /\ build.pc = "idle"
    /\ \E args \in BuildArgs, output \in Outputs, n \in 0..MaxVectors,
          d \in RowLengths, faults \in FaultSets, lenient \in BOOLEAN :
          build' = [BuildIdle EXCEPT !.pc = "load", !.args = args, !.output = output,
                                     !.n = n, !.d = d,
                                     !.faults = faults, !.lenient = lenient]
    /\ UNCHANGED <<idxVars, embVars>>

\* lines 193-197: the table is read into the embeddings array
BuildLoad ==
    /\ build.pc = "load"
    /\ build' = IF "load" \in build.faults THEN BuildRaised(build)
                ELSE [build EXCEPT !.pc = "check"]
    /\ UNCHANGED <<idxVars, embVars>>

\* lines 86-91: embeddings.shape is unpacked (an empty table gives an array of
\* shape (0,), which does not unpack) and dimension % m is checked
BuildCheck ==
    /\ build.pc = "check"
    /\ build' = IF build.n = 0 THEN BuildRaised(build)
                ELSE IF build.d % build.args.m # 0 THEN BuildRaised(build)
                ELSE [build EXCEPT !.pc = "create", !.n_vectors = build.n,
                                   !.dimension = build.d]
    /\ UNCHANGED <<idxVars, embVars>>

\* lines 95-96: faiss.IndexIVFPQ(quantizer, dimension, nlist, m, nbits).  The
\* library refuses a dimension that m does not divide; codes wider than 8
\* bits are refused by some of its versions and accepted by others; nbits is
\* not looked at by the builder
BuildCreate ==
    /\ build.pc = "create"
    /\ build' =
          IF build.dimension % build.args.m # 0 THEN BuildRaised(build)
          ELSE IF build.args.nbits > 8 /\ ~build.lenient THEN BuildRaised(build)
          ELSE [build EXCEPT !.pc = "sample",
                   !.index = [ made |-> TRUE, d |-> build.dimension,
                               nlist |-> build.args.nlist, m |-> build.args.m,
                               nbits |-> build.args.nbits, is_trained |-> FALSE,
                               trained_on |-> <<>>, added |-> <<>>, ntotal |-> 0,
                               nprobe |-> 1 ],
                   !.events = Append(@, "create")]
    /\ UNCHANGED <<idxVars, embVars>>

\* a sample drawn with replacement
BuildSampleWithReplacement ==
    /\ build.pc = "sample"
    /\ IF build.n_vectors > TrainingCap
       THEN \E training_indices \in [1..Min(TrainingCap, build.n_vectors)
                                        -> 1..build.n_vectors] :
               build' = [build EXCEPT !.pc = "train",
                                      !.training_vectors = training_indices]
       ELSE build' = [build EXCEPT !.pc = "train",
                         !.training_vectors = [i \in 1..build.n_vectors |-> i]]
    /\ UNCHANGED <<idxVars, embVars>>

\* lines 107-113: the training vectors: a sample without replacement when
\* there are more rows than the cap, every row otherwise
BuildSample ==
    /\ build.pc = "sample"
    /\ IF build.n_vectors > TrainingCap
       THEN \E training_indices \in
                  Choices(build.n_vectors, Min(TrainingCap, build.n_vectors)) :
               build' = [build EXCEPT !.pc = "train",
                                      !.training_vectors = training_indices]
       ELSE build' = [build EXCEPT !.pc = "train",
                         !.training_vectors = [i \in 1..build.n_vectors |-> i]]
    /\ UNCHANGED <<idxVars, embVars>>

\* index.train of the library: k-means needs at least as many points as
\* clusters, nlist for the cells and 2^nbits for each sub-codebook
TrainNeeds(index) ==
    IF index.nlist > Pow2(index.nbits) THEN index.nlist ELSE Pow2(index.nbits)

\* a builder that goes on to add when training raised
BuildTrainIgnoresFailure ==
    /\ build.pc = "train"
    /\ build' =
          IF Len(build.training_vectors) < TrainNeeds(build.index)
          THEN [build EXCEPT !.pc = "save", !.index.ntotal = build.n_vectors,
                   !.index.added = [i \in 1..build.n_vectors |-> i],
                   !.events = Append(@, "add")]
          ELSE [build EXCEPT !.pc = "add", !.index.is_trained = TRUE,
                   !.index.trained_on = build.training_vectors,
                   !.events = Append(@, "train")]
    /\ UNCHANGED <<idxVars, embVars>>

\* line 116: index.train(training_vectors)
BuildTrain ==
    /\ build.pc = "train"
    /\ build' =
          IF Len(build.training_vectors) < TrainNeeds(build.index)
          THEN BuildRaised(build)
          ELSE [build EXCEPT !.pc = "add", !.index.is_trained = TRUE,
                   !.index.trained_on = build.training_vectors,
                   !.events = Append(@, "train")]
    /\ UNCHANGED <<idxVars, embVars>>

\* lines 123-127: index.add(embeddings): every row, in order; the library
\* raises on an index that is not trained
BuildAdd ==
    /\ build.pc = "add"
    /\ build' =
          IF "add" \in build.faults \/ ~build.index.is_trained
          THEN BuildRaised(build)
          ELSE [build EXCEPT !.pc = "save", !.index.ntotal = build.n_vectors,
                   !.index.added = [i \in 1..build.n_vectors |-> i],
                   !.events = Append(@, "add")]
    /\ UNCHANGED <<idxVars, embVars>>

\* lines 203, 130-149: save_index: os.makedirs of the directory part
\* (which raises on an empty one), faiss.write_index, os.path.getsize; an
\* exception ends the run in the except clause of main
BuildSave ==
    /\ build.pc = "save"
    /\ build' =
          IF Dirname(build.output) = <<>> \/ "save" \in build.faults
          THEN BuildRaised(build)
          ELSE IF "stat" \in build.faults
          THEN [BuildRaised(build) EXCEPT !.artifact = build.index,
                                         !.events = Append(@, "write")]
          ELSE [build EXCEPT !.pc = "test", !.artifact = build.index,
                             !.events = Append(@, "write")]
    /\ UNCHANGED <<idxVars, embVars>>

\* lines 206-210, 152-177: the smoke test sets nprobe on the index object and
\* searches; main returns
BuildTest ==
    /\ build.pc = "test"
    /\ build' = [build EXCEPT !.pc = "exited", !.exit = 0, !.index.nprobe = 10]
    /\ UNCHANGED <<idxVars, embVars>>

InitBuild == InitOn({EmptyDir}) /\ dirExists

NextBuild ==
    \/ BuildStart
    \/ BuildLoad
    \/ BuildCheck
    \/ BuildCreate
    \/ BuildSample
    \/ BuildTrain
    \/ BuildAdd
    \/ BuildSave
    \/ BuildTest

SpecBuild == InitBuild /\ [][NextBuild]_vars

----------------------------------------------------------------------------
(* Properties *)

\* the artifact the index object i was read from
ArtOf(i) == heap[i].art

Searching(t) == loc[t].kind = "search"
Reloading(t) == loc[t].kind = "reload"
Done(t) == pc[t] = "done"

\* thread t has read the artifact and not yet finished installing it
InSwap(t) == pc[t] \in {"r_swap", "r_load_d", "r_store_d", "r_load_n", "r_store_n"}

\* some reload of shard k has begun and not returned
ReloadInProgress(k) ==
    \E t \in Threads : Reloading(t) /\ ~Done(t) /\ loc[t].shard_key = k

\* C1 (reload atomicity): every call sees one generation of the shard.  The
\* dimension a SearchIndex call compared the query length with, the index on
\* which it set nprobe and the index it searched belong to the same index
\* object, and every (total_vectors, dimension) pair GetIndexInfo reports is
\* the pair of one index loaded for that shard.
C1_ReloadAtomicity ==
    \A t \in Threads :
        /\ (Searching(t) /\ loc[t].idxSearched # 0) =>
              /\ loc[t].dimension = IndexD(ArtOf(loc[t].idxSearched))
              /\ loc[t].idxSet \in {0, loc[t].idxSearched}
        /\ \A i \in 1..Len(loc[t].shard_infos) :
              LET info == loc[t].shard_infos[i]
              IN \E o \in 1..Len(heap) :
                    /\ heap[o].path = info.index_path
                    /\ info.total_vectors = IndexNtotal(ArtOf(o))
                    /\ info.dimension = IndexD(ArtOf(o))

\* C2 (failed reload is fail-safe): the step in which a ReloadIndex call
\* returns after its artifact read failed changes no shard attribute and no
\* index object, the call has assigned nothing before it, and its response
\* has success = false and no reloaded shard.
C2_FailedReloadFailSafe ==
    [][\A t \in Threads :
          (Reloading(t)' /\ Done(t)' /\ ~Done(t) /\ loc'[t].didRead /\ ~resp'[t].success)
          => /\ shards' = shards
             /\ heap' = heap
             /\ ~loc'[t].wrote
             /\ resp'[t].reloaded_shards = <<>>]_vars

\* a reload of a registered shard failed on an unreadable artifact, and a
\* later search of that shard was answered from the index loaded before
C2_Witness ==
    \E t, u \in Threads :
        /\ Reloading(t) /\ Done(t) /\ loc[t].didRead /\ ~resp[t].success
        /\ loc[t].shard_key \in DOMAIN shards
        /\ Searching(u) /\ Done(u) /\ loc[u].shard_key = loc[t].shard_key
        /\ resp[u].code = "OK" /\ resp[u].results # <<>>
        /\ loc[u].idxSearched = 1

\* C3 (reloads of one key are serialized): two ReloadIndex calls on the same
\* key are never both between their artifact read and the end of their swap,
\* and when no reload of a key is running the shard's dimension and
\* total_vectors are those of its index.
C3_ReloadsSerialized ==
    /\ \A t, u \in Threads :
          (t # u /\ InSwap(t) /\ InSwap(u)) => loc[t].shard_key # loc[u].shard_key
    /\ \A k \in DOMAIN shards :
          ~ReloadInProgress(k) =>
              /\ shards[k].dimension = IndexD(ArtOf(shards[k].index))
              /\ shards[k].total_vectors = IndexNtotal(ArtOf(shards[k].index))

\* C4 (dimension guard): the index search is never invoked with a query whose
\* length is not the dimension of the index searched, and a rejected request
\* gets INVALID_ARGUMENT with the mismatch message and no result.
C4_DimensionGuard ==
    \A t \in Threads :
        Searching(t) =>
            /\ loc[t].idxSearched # 0 =>
                  Len(loc[t].req.query_vector) = IndexD(ArtOf(loc[t].idxSearched))
            /\ (Done(t) /\ resp[t].code # "OK" /\ loc[t].shard_key \in DOMAIN shards) =>
                  /\ resp[t].code = "INVALID_ARGUMENT"
                  /\ resp[t].results = <<>>

\* C5 (result-length bound): a successful SearchIndex with effective top_k on
\* an index of N vectors carries min(top_k, N) results.
C5_ResultLength ==
    \A t \in Threads :
        (Searching(t) /\ Done(t) /\ resp[t].code = "OK") =>
            Len(resp[t].results) =
                Min(loc[t].top_k, IndexNtotal(ArtOf(loc[t].idxSearched)))

\* C6 (ids are real): every result of a SearchIndex response has
\* 0 <= id < total_vectors of the index searched.
C6_IdsInRange ==
    \A t \in Threads :
        (Searching(t) /\ Done(t) /\ resp[t].code = "OK") =>
            \A i \in 1..Len(resp[t].results) :
                /\ 0 <= resp[t].results[i].id
                /\ resp[t].results[i].id < IndexNtotal(ArtOf(loc[t].idxSearched))

\* the message of a completed call lists exactly the registered keys, and the
\* call neither searched an index nor read an artifact
NotFoundAnswer(t, m) ==
    /\ resp[t].code = "NOT_FOUND"
    /\ "available" \in DOMAIN m
    /\ Range(m.available) = DOMAIN shards
    /\ Len(m.available) = Cardinality(DOMAIN shards)
    /\ resp[t].results = <<>> /\ ~resp[t].success
    /\ loc[t].idxSearched = 0 /\ ~loc[t].didRead

\* C7 as stated (unknown shard key): every SearchIndex or ReloadIndex request
\* whose key is not in the registry gets NOT_FOUND and a message listing the
\* registered keys.
C7_UnknownKey ==
    \A t \in Threads :
        (Done(t) /\ loc[t].shard_key \notin DOMAIN shards) =>
            /\ Searching(t) => NotFoundAnswer(t, resp[t].details)
            /\ Reloading(t) => NotFoundAnswer(t, resp[t].message)

\* C7 as amended: the same for SearchIndex and for a ReloadIndex whose key is
\* not empty (an empty ReloadIndex key is a validation error instead); the
\* listing is in the status details of SearchIndex and in the response
\* message of ReloadIndex.
C7_UnknownKeyAmended ==
    \A t \in Threads :
        (Done(t) /\ loc[t].shard_key \notin DOMAIN shards) =>
            /\ Searching(t) => NotFoundAnswer(t, resp[t].details)
            /\ (Reloading(t) /\ loc[t].shard_key # <<>>) =>
                  NotFoundAnswer(t, resp[t].message)

\* a search and a reload of an unregistered key were both answered while the
\* registry held shards
C7_Witness ==
    \E t, u \in Threads :
        /\ shardKeys # <<>>
        /\ Searching(t) /\ Done(t) /\ loc[t].shard_key \notin DOMAIN shards
        /\ Reloading(u) /\ Done(u) /\ loc[u].shard_key = <<"zz">>
        /\ resp[t].code = "NOT_FOUND" /\ resp[u].code = "NOT_FOUND"

\* name of an artifact file with its final extension removed
Stem(f) == SubSeq(f, 1, Len(f) - 1)

\* the artifact files of the directory that can be loaded
Loadable == {f \in Files : EndsWithIndex(f) /\ disk[f] \in ArtifactNames}

\* C8 (discovery fault isolation): after discovery the registry holds exactly
\* the shards of the artifacts that loaded: every loadable artifact is the
\* source of one shard and every shard's source is a loadable artifact.
C8_DiscoveryIsolation ==
    phase = "serving" =>
        {shards[k].index_path : k \in DOMAIN shards} = Loadable

\* C9 (discovery keying): every loadable artifact becomes the shard keyed by
\* its stem, and there are as many shards as loadable artifacts.
C9_DiscoveryKeying ==
    phase = "serving" =>
        /\ \A f \in Loadable :
              Stem(f) \in DOMAIN shards /\ shards[Stem(f)].index_path = f
        /\ Cardinality(DOMAIN shards) = Cardinality(Loadable)

\* C10 (shard-key fallback): a SearchIndex call works on the requested key,
\* or on the default key when the request has none, and a successful response
\* carries the key of the shard whose index was searched.
C10_KeyFallback ==
    \A t \in Threads :
        Searching(t) =>
            /\ loc[t].shard_key =
                  (IF loc[t].req.shard_key = <<>> THEN <<"nyc_taxi_2023">>
                   ELSE loc[t].req.shard_key)
            /\ (Done(t) /\ resp[t].code = "OK") =>
                  /\ resp[t].shard_key = loc[t].shard_key
                  /\ resp[t].shard_key \in DOMAIN shards
                  /\ heap[loc[t].idxSearched].path = shards[resp[t].shard_key].index_path

\* a request without shard_key was answered from the default shard
C10_Witness ==
    \E t \in Threads :
        /\ Searching(t) /\ Done(t) /\ loc[t].req.shard_key = <<>>
        /\ resp[t].code = "OK" /\ resp[t].results # <<>>
        /\ resp[t].shard_key = <<"nyc_taxi_2023">>

\* the shard search of thread t is being, or has been, called
InShardSearch(t) ==
    Searching(t) /\ (pc[t] \in {"s_has", "s_set", "s_search"} \/ loc[t].idxSearched # 0)

\* C11 (parameter defaulting): the shard search is called with the request's
\* top_k and nprobe when they are positive and with 10 when they are not, so
\* never with a non-positive value; the nprobe written into the index and the
\* number of results returned are those effective values.
C11_ParameterDefaulting ==
    \A t \in Threads :
        InShardSearch(t) =>
            LET r == loc[t].req IN
            /\ (r.top_k > 0 => loc[t].top_k = r.top_k)
            /\ (r.top_k <= 0 => loc[t].top_k = 10)
            /\ (r.nprobe > 0 => loc[t].nprobe = r.nprobe)
            /\ (r.nprobe <= 0 => loc[t].nprobe = 10)
            /\ loc[t].top_k > 0 /\ loc[t].nprobe > 0
            /\ (Done(t) /\ resp[t].code = "OK") => Len(resp[t].results) = loc[t].top_k

\* a search with a negative top_k and nprobe returned ten results, and a
\* search with top_k 2 and nprobe 1 wrote 1 into its index's nprobe
C11_Witness ==
    /\ \E t \in Threads :
          /\ Searching(t) /\ Done(t) /\ resp[t].code = "OK"
          /\ loc[t].req.top_k < 0 /\ loc[t].req.nprobe < 0
          /\ Len(resp[t].results) = 10
    /\ \E t \in Threads :
          /\ Searching(t) /\ Done(t) /\ resp[t].code = "OK"
          /\ loc[t].req.top_k = 2 /\ loc[t].req.nprobe = 1
          /\ loc[t].idxSet # 0 /\ heap[loc[t].idxSet].nprobe = 1

\* C12 (ReloadIndex reports what was reloaded): a returned ReloadIndex call
\* answers success=true with reloaded_shards=[shard_key] exactly when it put
\* an index freshly read from the shard's artifact into the registered shard;
\* otherwise it answers success=false with reloaded_shards=[], with status
\* INVALID_ARGUMENT for an empty key and NOT_FOUND for a key not registered.
C12_ReloadReport ==
    \A t \in Threads :
        (Reloading(t) /\ Done(t)) =>
            LET k == loc[t].shard_key IN
            /\ resp[t].success <=> loc[t].wrote
            /\ loc[t].wrote =>
                  /\ k \in DOMAIN shards
                  /\ loc[t].new_index \in 1..Len(heap)
                  /\ heap[loc[t].new_index].path = shards[k].index_path
                  /\ resp[t].reloaded_shards = <<k>>
                  /\ resp[t].code = "OK"
            /\ ~loc[t].wrote => resp[t].reloaded_shards = <<>>
            /\ k = <<>> => resp[t].code = "INVALID_ARGUMENT"
            /\ (k # <<>> /\ k \notin DOMAIN shards) => resp[t].code = "NOT_FOUND"
            /\ (~loc[t].wrote /\ k \in DOMAIN shards) =>
                  loc[t].didRead /\ loc[t].new_index = 0

\* one reload replaced the index and reported it, another failed on an
\* unreadable artifact and reported nothing reloaded
C12_Witness ==
    /\ \E t \in Threads :
          /\ Reloading(t) /\ Done(t) /\ resp[t].success
          /\ resp[t].reloaded_shards = <<loc[t].shard_key>>
          /\ shards[loc[t].shard_key].index = loc[t].new_index
    /\ \E t \in Threads :
          /\ Reloading(t) /\ Done(t) /\ ~resp[t].success
          /\ loc[t].didRead /\ resp[t].reloaded_shards = <<>>

Informing(t) == loc[t].kind = "info"

\* C13 (GetIndexInfo accuracy): a GetIndexInfo call made after the reloads
\* have completed returns one entry per shard of the registry, and each
\* entry's total_vectors, dimension and path are those of the index the shard
\* holds, the one a search would run against.
C13_InfoAccuracy ==
    \A t \in Threads :
        (Informing(t) /\ Done(t) /\ loc[t].quiet) =>
            /\ resp[t].code = "OK"
            /\ Len(resp[t].shards) = Cardinality(DOMAIN shards)
            /\ {resp[t].shards[i].shard_key : i \in 1..Len(resp[t].shards)} = DOMAIN shards
            /\ \A i \in 1..Len(resp[t].shards) :
                  LET e == resp[t].shards[i]
                      idx == shards[e.shard_key].index
                  IN /\ e.total_vectors = IndexNtotal(ArtOf(idx))
                     /\ e.dimension = IndexD(ArtOf(idx))
                     /\ e.index_path = heap[idx].path

\* the directory holds no artifact file (it may not exist at all)
NoArtifact == \A f \in Files : EndsWithIndex(f) => disk[f] = "absent"

\* C14 (empty registry): when the index directory is missing or holds no
\* artifact, construction ends with zero shards, and from then on every
\* GetIndexInfo answers an empty list and every SearchIndex answers NOT_FOUND,
\* the one without shard_key included; no search is run and nothing is read.
C14_EmptyRegistry ==
    NoArtifact =>
        /\ phase \in {"init", "serving"}
        /\ shards = <<>> /\ shardKeys = <<>> /\ heap = <<>>
        /\ \A t \in Threads :
              /\ (Informing(t) /\ Done(t)) =>
                    resp[t].code = "OK" /\ resp[t].shards = <<>>
              /\ Searching(t) =>
                    /\ Done(t) /\ resp[t].code = "NOT_FOUND"
                    /\ resp[t].results = <<>> /\ loc[t].idxSearched = 0

\* without any artifact the service came up, and a search without shard_key
\* and a GetIndexInfo were answered
C14_Witness ==
    /\ NoArtifact /\ phase = "serving" /\ shards = <<>>
    /\ \E t, u \in Threads :
          /\ Searching(t) /\ Done(t) /\ loc[t].req.shard_key = <<>>
          /\ resp[t].code = "NOT_FOUND"
          /\ Informing(u) /\ Done(u) /\ resp[u].shards = <<>>

\* what SearchIndex returns for request r when it runs alone from this state
\* (lines 150-195 in program order; a library failure with an empty message)
SearchAnswer(r) ==
    LET k == ResolveKey(r) IN
    IF k \notin DOMAIN shards
    THEN [NoResp EXCEPT !.code = "NOT_FOUND",
             !.details = [msg |-> "Shard not found. Available shards",
                          shard_key |-> k, available |-> AvailableShards]]
    ELSE LET idx == shards[k].index
             a == ArtOf(idx)
         IN IF Len(r.query_vector) # shards[k].dimension
            THEN [NoResp EXCEPT !.code = "INVALID_ARGUMENT",
                     !.details = [msg |-> "Query dimension does not match index dimension",
                                  query_dimension |-> Len(r.query_vector),
                                  index_dimension |-> shards[k].dimension]]
            ELSE IF Len(r.query_vector) # IndexD(a)
            THEN SearchFailed("")
            ELSE SearchResponse(k, IndexSearch(a, r.query_vector, EffectiveTopK(r),
                                   IF HasNprobe(a) THEN EffectiveNprobe(r)
                                   ELSE heap[idx].nprobe))

\* the total_vectors and dimension GetIndexInfo reports when it runs alone
InfoAnswer ==
    [k \in DOMAIN shards |->
        [total_vectors |-> shards[k].total_vectors, dimension |-> shards[k].dimension]]

\* thread t is inside ShardIndex.reload
InReload(t) ==
    Reloading(t) /\
    pc[t] \in {"r_read", "r_swap", "r_load_d", "r_store_d", "r_load_n", "r_store_n"}

\* the reload of thread t runs alone on an unchanged artifact: the artifact it
\* read is the one the index it replaces was read from, the file still holds
\* it, and no other reload of the shard is under way
UnchangedArtifact(t) ==
    /\ loc[t].new_index # 0
    /\ ArtOf(loc[t].new_index) = ArtOf(loc[t].old_index)
    /\ disk[heap[loc[t].new_index].path] = ArtOf(loc[t].new_index)
    /\ \A u \in Threads \ {t} :
          ~(InReload(u) /\ loc[u].shard_key = loc[t].shard_key)

\* C15 (reload idempotence): no step of a reload from an unchanged artifact
\* changes what SearchIndex returns for any request or what GetIndexInfo
\* reports, so the answers after one such reload, or after any number of
\* them, are the answers before.
C15_ReloadIdempotent ==
    [][ \A t \in Threads :
          (InReload(t) /\ pc'[t] # pc[t] /\ UnchangedArtifact(t)) =>
              /\ \A r \in SearchRequests : SearchAnswer(r)' = SearchAnswer(r)
              /\ InfoAnswer' = InfoAnswer ]_vars

\* C16 (internal errors are opaque): an INTERNAL answer does not depend on the
\* text of the exception behind it: the response and status details a caller
\* gets are the ones any other exception text would have produced.
C16_OpaqueInternalErrors ==
    \A t \in Threads :
        (Searching(t) /\ Done(t) /\ resp[t].code = "INTERNAL") =>
            \A e \in ExceptionTexts : resp[t] = SearchFailed(e)

\* the call of thread t has returned without doing what was asked: a search
\* without results, a reload that reloaded nothing
Failed(t) ==
    Done(t) /\ \/ Searching(t) /\ resp[t].results = <<>>
               \/ Reloading(t) /\ ~resp[t].success

\* the index library raised in the search of thread t
Raised(t) ==
    /\ Searching(t) /\ loc[t].idxSearched # 0
    /\ Len(loc[t].req.query_vector) # IndexD(ArtOf(loc[t].idxSearched))

\* the reload of thread t could not read the artifact and said so in its
\* response, with the status left at OK
ReadFailureReported(t) ==
    /\ Reloading(t) /\ loc[t].didRead /\ loc[t].new_index = 0
    /\ resp[t].code = "OK" /\ ~resp[t].success
    /\ resp[t].message = [msg |-> "Failed to reload shard", shard_key |-> loc[t].shard_key]

\* the step in which a call of some thread returns a failure leaves the
\* registry, the loaded indexes and the files as they were
FailureKeepsRegistry ==
    \A t \in Threads :
        (pc'[t] = "done" /\ <<pc[t], loc[t], resp[t]>> # <<pc'[t], loc'[t], resp'[t]>>
            /\ Failed(t)') =>
                UNCHANGED <<shards, shardKeys, heap, disk>>

\* thread t takes the step
Steps(t) == <<pc[t], loc[t], resp[t]>> # <<pc'[t], loc'[t], resp'[t]>>

\* every loaded index stays loaded, from the same file with the same content;
\* its nprobe field, which ShardIndex.search assigns at line 67, may differ
IndexesKept ==
    /\ Len(heap') >= Len(heap)
    /\ \A i \in 1..Len(heap) :
          heap'[i].art = heap[i].art /\ heap'[i].path = heap[i].path

\* no step of a SearchIndex or GetIndexInfo call, and no step of a ReloadIndex
\* call that has assigned nothing, changes the registry, an attribute of a
\* shard or a file, or unloads an index
CallKeepsShards ==
    \A t \in Threads :
        (Steps(t) /\ (Searching(t)' \/ Informing(t)'
                         \/ (Reloading(t)' /\ ~loc'[t].wrote))) =>
            /\ UNCHANGED <<shards, shardKeys, disk>>
            /\ IndexesKept

\* once the call of thread t has failed, every shard of the registry holds a
\* loaded index, and a failed reload has assigned nothing
StillServes(t) ==
    Failed(t) =>
        /\ Reloading(t) => ~loc[t].wrote
        /\ \A k \in DOMAIN shards :
              /\ shards[k].index \in 1..Len(heap)
              /\ ArtOf(shards[k].index) \in ArtifactNames

\* C17 as stated (no serving-path error is fatal): every call returns a
\* response, a failed one with an error status, and after a failed call the
\* registry still serves all its shards.
C17_NoFatalError ==
    /\ [](\A t \in Threads :
            /\ Failed(t) => resp[t].code \in {"NOT_FOUND", "INVALID_ARGUMENT", "INTERNAL"}
            /\ Raised(t) => Done(t) /\ resp[t].code = "INTERNAL"
            /\ StillServes(t))
    /\ [][FailureKeepsRegistry /\ CallKeepsShards]_vars

\* C17 (amended): every call returns a response and no failure escapes the
\* handler: a failure of the index library is answered INTERNAL, a failed
\* call carries an error status, except the reload whose artifact read failed,
\* which reports success=false with status OK; after a failed call the
\* registry still serves all its shards: no step of the call removed a key,
\* changed an attribute of a shard or unloaded an index.
C17_NoFatalErrorAmended ==
    /\ [](\A t \in Threads :
            /\ Failed(t) =>
                  \/ resp[t].code \in {"NOT_FOUND", "INVALID_ARGUMENT", "INTERNAL"}
                  \/ ReadFailureReported(t)
            /\ Raised(t) => Done(t) /\ resp[t].code = "INTERNAL"
            /\ StillServes(t))
    /\ [][FailureKeepsRegistry /\ CallKeepsShards]_vars

\* a search failed inside the index library and was answered INTERNAL, and
\* the ReloadIndex sent afterwards for the same shard succeeded
C17_Witness ==
    \E t, u \in Threads :
        /\ Raised(t) /\ Failed(t) /\ resp[t].code = "INTERNAL"
        /\ loc[t].shard_key \in DOMAIN shards
        /\ calls = MaxCalls + 1
        /\ Reloading(u) /\ Done(u) /\ resp[u].success
        /\ loc[u].shard_key = loc[t].shard_key

\* the text has no character other than whitespace
Blank(t) == \A i \in 1..Len(t) : t[i] = WS

\* C18 (batch embedding is positional): a successful GenerateEmbeddingBatch
\* returns one embedding per text of the request, the i-th being the embedding
\* of the i-th text, and generate_embeddings, which concatenates the batch
\* responses, ends with one vector per row, the i-th being that of row i.
C18_BatchPositional ==
    /\ (emb.kind = "batch" /\ emb.pc = "done" /\ emb.resp.code = "OK") =>
          /\ Len(emb.resp.embeddings) = Len(emb.texts)
          /\ \A i \in 1..Len(emb.texts) :
                emb.resp.embeddings[i].vector = Encode(Strip(emb.texts[i]))
    /\ client.pc = "done" =>
          /\ Len(client.all_embeddings) = Len(client.texts)
          /\ \A i \in 1..Len(client.texts) :
                client.all_embeddings[i] = Encode(Strip(client.texts[i]))

\* C19 (empty embedding input is rejected before any model work): a
\* GenerateEmbedding call whose text is empty or whitespace, and a
\* GenerateEmbeddingBatch call without a non-blank text, never reach the
\* model and return the empty response with INVALID_ARGUMENT; whatever the
\* model is given holds no blank text.
C19_EmptyInputRejected ==
    /\ (emb.kind = "single" /\ Blank(emb.text)) =>
          /\ emb.pc \in {"s_strip", "done"} /\ ~emb.invoked
          /\ emb.pc = "done" => emb.resp = EmbRejected("Text cannot be empty")
    /\ (emb.kind = "batch" /\ \A i \in 1..Len(emb.texts) : Blank(emb.texts[i])) =>
          /\ emb.pc \in {"b_strip", "done"} /\ ~emb.invoked
          /\ emb.pc = "done" =>
                emb.resp = EmbRejected("At least one non-empty text is required")
    /\ emb.invoked =>
          /\ emb.encoded # <<>>
          /\ \A i \in 1..Len(emb.encoded) : ~Blank(emb.encoded[i])

\* a batch of an empty and a whitespace-only text came back rejected, the
\* model not invoked
C19_Witness ==
    /\ emb.kind = "batch" /\ emb.pc = "done"
    /\ emb.texts = <<<<>>, <<WS>>>>
    /\ emb.resp.code = "INVALID_ARGUMENT" /\ emb.resp.embeddings = <<>>
    /\ ~emb.invoked

\* thread t takes a step of a ReloadIndex call
ReloadStep(t) ==
    /\ <<pc[t], loc[t], resp[t]>> # <<pc'[t], loc'[t], resp'[t]>>
    /\ Reloading(t)'

\* C20 (reloads of different keys are independent): no step of a ReloadIndex
\* of shard A, in any interleaving, changes another shard's index, dimension,
\* total_vectors or path, an index object already loaded, a file, the key
\* set, or the position, locals and response of another thread's call; so a
\* concurrent search or reload of another shard proceeds as without it.
C20_ReloadsIndependent ==
    [][ \A t \in Threads :
          ReloadStep(t) =>
              /\ \A k \in DOMAIN shards \ {loc'[t].shard_key} :
                    k \in DOMAIN shards' /\ shards'[k] = shards[k]
              /\ \A i \in 1..Len(heap) : heap'[i] = heap[i]
              /\ disk' = disk /\ shardKeys' = shardKeys
              /\ \A u \in Threads \ {t} :
                    pc'[u] = pc[u] /\ loc'[u] = loc[u] /\ resp'[u] = resp[u] ]_vars

\* with two shards registered, a reload of one returned success, a reload or
\* search of the other returned too, and the other shard is as discovery
\* loaded it
C20_Witness ==
    \E t, u \in Threads :
        /\ Reloading(t) /\ Done(t) /\ resp[t].success
        /\ loc[t].shard_key = <<"a">>
        /\ Done(u) /\ loc[u].shard_key = <<"nyc_taxi_2023">>
        /\ \/ Searching(u) /\ resp[u].code = "OK"
           \/ Reloading(u) /\ resp[u].success
        /\ <<"nyc_taxi_2023">> \in DOMAIN shards
        /\ shards[<<"nyc_taxi_2023">>].dimension = IndexD("ivf4")
        /\ shards[<<"nyc_taxi_2023">>].total_vectors = IndexNtotal("ivf4")
        /\ ArtOf(shards[<<"nyc_taxi_2023">>].index) = "ivf4"

\* the search of thread t assigned nprobe on an index and searched that same
\* index (no reload came in between)
SearchedIvf(t) ==
    /\ Searching(t) /\ Done(t) /\ resp[t].code = "OK"
    /\ HasNprobe(ArtOf(loc[t].idxSearched))
    /\ loc[t].idxSet = loc[t].idxSearched

\* C21 (searches do not interfere): whatever other searches of the same shard
\* run at the same time, a search is executed with the nprobe derived from its
\* own request: the index it searched held that value when it was searched,
\* and the results are those of a search with that value.
C21_SearchesIndependent ==
    \A t \in Threads :
        SearchedIvf(t) =>
            /\ loc[t].probed = EffectiveNprobe(loc[t].req)
            /\ resp[t].results =
                  SearchResponse(loc[t].shard_key,
                      IndexSearch(ArtOf(loc[t].idxSearched), loc[t].req.query_vector,
                                  EffectiveTopK(loc[t].req),
                                  EffectiveNprobe(loc[t].req))).results

\* once construction is over a step leaves the registry's keys as they are
KeysKept ==
    phase = "serving" => (DOMAIN shards' = DOMAIN shards /\ shardKeys' = shardKeys)

\* C22 (key set fixed at construction): no step of a SearchIndex,
\* GetIndexInfo or ReloadIndex call, nor a file appearing on disk, adds or
\* removes a shard key; every registered shard holds a loaded index at every
\* moment, during reloads too; a search of a registered key is never answered
\* NOT_FOUND, and a reload of an unregistered key is, whatever the disk holds.
C22_KeySetFixed ==
    /\ [][KeysKept]_vars
    /\ [](/\ Range(shardKeys) = DOMAIN shards
          /\ \A k \in DOMAIN shards : shards[k].index \in 1..Len(heap)
          /\ \A t \in Threads :
                /\ (Searching(t) /\ Done(t) /\ loc[t].shard_key \in DOMAIN shards) =>
                      resp[t].code # "NOT_FOUND"
                /\ (Searching(t) /\ ~Done(t)) => loc[t].shard_key \in DOMAIN shards
                /\ (Reloading(t) /\ Done(t) /\ loc[t].shard_key # <<>>
                       /\ loc[t].shard_key \notin DOMAIN shards) =>
                      resp[t].code = "NOT_FOUND" /\ ~loc[t].didRead)

\* key "a" was not registered at startup; with a readable artifact for it on
\* disk a reload of "a" was answered NOT_FOUND, while a registered shard was
\* reloaded and the key set is still the one of startup
C22_Witness ==
    \E t, u \in Threads :
        /\ <<"a">> \notin DOMAIN shards /\ disk[FileA] \in ArtifactNames
        /\ Reloading(t) /\ Done(t) /\ loc[t].shard_key = <<"a">>
        /\ resp[t].code = "NOT_FOUND"
        /\ Reloading(u) /\ Done(u) /\ resp[u].success
        /\ shardKeys = << <<"nyc_taxi_2023">> >>

\* the keys of the entries of the GetIndexInfo response of thread t
InfoKeys(t) == {resp[t].shards[i].shard_key : i \in 1..Len(resp[t].shards)}

\* C23 (GetIndexInfo honours its shard_key filter): a GetIndexInfo whose
\* request names a shard_key returns only that shard's entry, none if the key
\* is not registered; with an empty filter it returns one entry per shard.
C23_InfoFilter ==
    \A t \in Threads :
        (Informing(t) /\ Done(t)) =>
            LET k == loc[t].req.shard_key IN
            /\ Len(resp[t].shards) = Cardinality(InfoKeys(t))
            /\ InfoKeys(t) = (IF k = <<>> THEN DOMAIN shards ELSE {k} \cap DOMAIN shards)

\* C24 (nprobe clamping): the nprobe a SearchIndex call assigns to its
\* shard's index lies in [1, nlist] of that index: the request's value when
\* it is in that range, nlist when it is greater.
C24_NprobeClamped ==
    \A t \in Threads :
        (Searching(t) /\ loc[t].idxSet # 0) =>
            LET nlist == IndexNlist(ArtOf(loc[t].idxSet)) IN
            /\ 1 <= loc[t].nprobe /\ loc[t].nprobe <= nlist
            /\ (loc[t].req.nprobe \in 1..nlist) => loc[t].nprobe = loc[t].req.nprobe
            /\ loc[t].req.nprobe > nlist => loc[t].nprobe = nlist

\* the run of the builder has a trained index
BuildTrained == build.index.made /\ build.index.is_trained

\* the run of the builder has added the vectors
BuildAdded == build.index.made /\ build.index.added # <<>>

\* C25 (training subsample, full population): with n input vectors and cap
\* C, the index is trained on min(n, C) rows of the input, no row twice, all
\* n rows when n <= C; whatever was sampled, add receives all n rows, the
\* index holds n vectors and so does the artifact written from it.
C25_TrainingSample ==
    /\ BuildTrained =>
          LET t == build.index.trained_on IN
          /\ Len(t) = Min(build.n, TrainingCap)
          /\ \A i \in 1..Len(t) : t[i] \in 1..build.n
          /\ \A i, j \in 1..Len(t) : t[i] = t[j] => i = j
          /\ build.n <= TrainingCap => t = [i \in 1..build.n |-> i]
    /\ BuildAdded =>
          /\ build.index.added = [i \in 1..build.n |-> i]
          /\ build.index.ntotal = build.n
    /\ build.artifact.made => build.artifact.ntotal = build.n

\* a run over more rows than the cap trained on a sample of the cap's size
\* and ended with every row in the index it wrote
C25_Witness ==
    /\ build.exit = 0 /\ build.n > TrainingCap
    /\ Len(build.index.trained_on) = TrainingCap
    /\ build.artifact.made /\ build.artifact.ntotal = build.n

\* the arguments and the table of the run meet the codebook conditions
CodebookOk ==
    /\ build.d % build.args.m = 0
    /\ 1 <= build.args.nbits /\ build.args.nbits <= 8

\* C26 (codebook parameter invariant): every index the builder constructs has
\* dimension % m = 0 and 1 <= nbits <= 8, and a run whose request violates
\* either condition creates no index, trains nothing and writes nothing, and
\* ends with an error.
C26_CodebookParameters ==
    /\ build.index.made =>
          /\ build.index.d % build.index.m = 0
          /\ 1 <= build.index.nbits /\ build.index.nbits <= 8
    /\ (build.pc # "idle" /\ ~CodebookOk) =>
          /\ ~build.index.made /\ ~build.artifact.made /\ build.events = <<>>
          /\ build.pc = "exited" => build.exit = 1

\* the library calls of a complete run, in order
BuildSteps == <<"create", "train", "add", "write">>

\* Untrained, Trained or Populated: the lifecycle state of an index object
IndexState(index) ==
    IF ~index.is_trained THEN "Untrained"
    ELSE IF index.added = <<>> THEN "Trained" ELSE "Populated"

\* training raises in this run: the training vectors are fewer than the
\* library needs
TrainFails ==
    /\ build.index.made /\ build.pc \notin {"sample", "train"}
    /\ Len(build.training_vectors) < TrainNeeds(build.index)

\* a step of the run moves the index one lifecycle state forward at most,
\* never back, and never from Untrained to Populated
LifecycleStep ==
    (build.index.made /\ build'.index.made) =>
        <<IndexState(build.index), IndexState(build.index')>> \in
            { <<"Untrained", "Untrained">>, <<"Untrained", "Trained">>,
              <<"Trained", "Trained">>, <<"Trained", "Populated">>,
              <<"Populated", "Populated">> }

\* C27 (build lifecycle ordering): in every run the index is created
\* Untrained, then trained, then populated, in that order: add returns only
\* after train has; the artifact is written only after every vector was
\* added; and when loading, training or adding fails nothing is written and
\* the run ends with exit status 1.
C27_BuildLifecycle ==
    /\ [][LifecycleStep]_vars
    /\ [](/\ build.events = SubSeq(BuildSteps, 1, Len(build.events))
          /\ build.index.made =>
                /\ (build.index.added # <<>> => build.index.is_trained)
                /\ (build.index.is_trained <=> Len(build.events) >= 2)
                /\ (build.index.added # <<>> <=> Len(build.events) >= 3)
          /\ build.artifact.made =>
                /\ IndexState(build.artifact) = "Populated"
                /\ build.artifact.ntotal = build.n_vectors
                /\ Len(build.events) = 4
          /\ ("load" \in build.faults /\ build.pc \notin {"idle", "load"}) =>
                build.exit = 1 /\ build.events = <<>> /\ ~build.artifact.made
          /\ TrainFails =>
                /\ build.exit = 1 /\ build.events = <<"create">>
                /\ ~build.artifact.made
          /\ ("add" \in build.faults /\ build.pc \in {"save", "test", "exited"}) =>
                build.exit = 1 /\ ~build.artifact.made
          /\ build.exit = 0 => build.events = BuildSteps
          /\ build.pc = "exited" <=> build.exit \in {0, 1})

\* a run whose training raised ended with status 1, the index still
\* untrained and nothing written
C27_Witness ==
    /\ TrainFails /\ build.pc = "exited" /\ build.exit = 1
    /\ IndexState(build.index) = "Untrained"
    /\ build.training_vectors # <<>>
    /\ ~build.artifact.made

====
